---- MODULE Spec2Model ----
(***************************************************************************)
(* fallhack (src/main.rs): read guesses from standard input, one per line, *)
(* each a word with an optional count of letters in the right position,    *)
(* and print the words without a count that agree with every word that has *)
(* one.                                                                    *)
(*                                                                         *)
(* Text is a sequence of one-character strings.  Option<T> is a sequence   *)
(* of length 0 (None) or 1 (Some).  A &Guess is the index of the guess in  *)
(* the vector that owns it.                                                *)
(***************************************************************************)
EXTENDS Integers, Sequences, FiniteSets

VARIABLES
    stdin,      \* the text waiting on standard input
    pc,         \* where the process is: read, parse, validate, filter, print, main, exit
    lines,      \* buffer.lines(), once the read succeeded
    next,       \* index of the line the parsing loop takes next
    guesses,    \* Vec<Guess> of parse_guesses_from_stdin
    result,     \* Option<Result<()>> of run: <<>> while running
    filtered,   \* the guesses the filter lets through, as indices into guesses
    pos,        \* how many of them the printing loop has printed
    stdout,     \* lines written to standard output
    stderr,     \* lines written to standard error
    status,     \* Option<exit status>
    line,       \* SpecParse: the line given to Guess::try_from
    parsed,     \* SpecParse: Option<its outcome>
    wa, wb,     \* SpecCommon: the two guesses' words
    num         \* SpecCommon: Option<<<wa.common(wb), wb.common(wa)>>>

runVars == <<stdin, pc, lines, next, guesses, result, filtered, pos, stdout, stderr, status>>
parseVars == <<line, parsed>>
commonVars == <<wa, wb, num>>
vars == <<runVars, parseVars, commonVars>>

---------------------------------------------------------------------------
(* Bounds *)

\* most lines on standard input
MaxLines == 3
\* longest line SpecParse builds character by character
MaxLineLen == 4
\* longest word SpecCommon compares
MaxWordLen == 3

---------------------------------------------------------------------------
(* Characters and the classes of the regex (ASCII classes) *)

AlphaChars ==
    {"a","b","c","d","e","f","g","h","i","j","k","l","m",
     "n","o","p","q","r","s","t","u","v","w","x","y","z",
     "A","B","C","D","E","F","G","H","I","J","K","L","M",
     "N","O","P","Q","R","S","T","U","V","W","X","Y","Z"}
\* [[:space:]] without the vertical tab, which has no string here
SpaceChars == {" ", "\t", "\n", "\f", "\r"}
DigitSeq == <<"0","1","2","3","4","5","6","7","8","9">>
DigitChars == {DigitSeq[i] : i \in 1..10}

DigitVal(c) == (CHOOSE i \in 1..10 : DigitSeq[i] = c) - 1

None == <<>>
Some(x) == <<x>>

---------------------------------------------------------------------------
(* Guess (lines 14-45) *)

\* Guess::new
NewGuess(word) == [word |-> word, count |-> None]

\* Guess::new_with_count
NewGuessWithCount(word, count) == [word |-> word, count |-> Some(count)]

\* Mutant: counts the letters of self that occur anywhere in other
RECURSIVE CommonLettersAnywhere(_, _, _, _)
CommonLettersAnywhere(self, other, index, n) ==
    IF index > Len(self.word) THEN Some(n)
    ELSE CommonLettersAnywhere(self, other, index + 1,
            IF \E j \in 1..Len(other.word) : other.word[j] = self.word[index]
            THEN n + 1 ELSE n)

\* The loop of num_of_common_letters from position index on, num so far n.
\* other.word.as_bytes()[index] is out of bounds when other is shorter: the
\* process panics, which is None here.
RECURSIVE CommonLettersFrom(_, _, _, _)
CommonLettersFrom(self, other, index, n) ==
    IF index > Len(self.word) THEN Some(n)
    ELSE IF index > Len(other.word) THEN None
    ELSE CommonLettersFrom(self, other, index + 1,
            IF self.word[index] = other.word[index] THEN n + 1 ELSE n)

\* Mutant: the first letter is not compared
CommonLettersButFirst(self, other) == CommonLettersFrom(self, other, 2, 0)

\* Guess::num_of_common_letters: Option<usize>, None for a panic
num_of_common_letters(self, other) == CommonLettersFrom(self, other, 1, 0)

---------------------------------------------------------------------------
(* impl TryFrom<&str> for Guess (lines 47-96) *)

\* First index >= i of s whose character is in class, 0 when there is none
RECURSIVE FirstIn(_, _, _)
FirstIn(s, i, class) ==
    IF i > Len(s) THEN 0
    ELSE IF s[i] \in class THEN i
    ELSE FirstIn(s, i + 1, class)

\* First index >= i of s whose character is not in class, Len(s) + 1 when
\* there is none: where a greedy class* that starts at i stops
RECURSIVE RunEnd(_, _, _)
RunEnd(s, i, class) ==
    IF i > Len(s) THEN i
    ELSE IF s[i] \in class THEN RunEnd(s, i + 1, class)
    ELSE i

\* Mutant: the pattern anchored at the start of the line
CapturesAnchored(s) ==
    IF Len(s) = 0 \/ s[1] \notin AlphaChars THEN None
    ELSE LET e == RunEnd(s, 1, AlphaChars)
             d == RunEnd(s, e, SpaceChars)
             f == RunEnd(s, d, DigitChars)
         IN  Some([word |-> SubSeq(s, 1, e - 1), count |-> SubSeq(s, d, f - 1)])

\* GUESS_REGEX.captures(line): the leftmost match of
\* (?P<word>[[:alpha:]]+)[[:space:]]*(?P<count>[[:digit:]]*), not anchored.
\* A match starts at the first alphabetic character; each greedy run is
\* maximal, as what follows it can match the empty string.
Captures(s) ==
    LET b == FirstIn(s, 1, AlphaChars) IN
    IF b = 0 THEN None
    ELSE LET e == RunEnd(s, b, AlphaChars)
             d == RunEnd(s, e, SpaceChars)
             f == RunEnd(s, d, DigitChars)
         IN  Some([word |-> SubSeq(s, b, e - 1), count |-> SubSeq(s, d, f - 1)])

\* usize::MAX in decimal (a 64-bit usize), as the digits str::parse compares
\* against: the value does not fit the integers of the model checker
UsizeMaxDigits ==
    <<"1","8","4","4","6","7","4","4","0","7","3","7","0","9","5","5","1","6","1","5">>

\* A digit string without its leading zeros ("" for zero)
RECURSIVE StripZeros(_)
StripZeros(d) ==
    IF Len(d) > 0 /\ d[1] = "0" THEN StripZeros(Tail(d)) ELSE d

\* x > y for two digit strings of one length, from index i on
RECURSIVE LexGreater(_, _, _)
LexGreater(x, y, i) ==
    IF i > Len(x) THEN FALSE
    ELSE IF DigitVal(x[i]) # DigitVal(y[i]) THEN DigitVal(x[i]) > DigitVal(y[i])
    ELSE LexGreater(x, y, i + 1)

\* x > y as numbers, for two digit strings without leading zeros
DecGreater(x, y) ==
    \/ Len(x) > Len(y)
    \/ Len(x) = Len(y) /\ LexGreater(x, y, 1)

\* The decimal digits of a natural number, without leading zeros
RECURSIVE ToDigits(_)
ToDigits(n) ==
    IF n = 0 THEN <<>>
    ELSE Append(ToDigits(n \div 10), DigitSeq[(n % 10) + 1])

\* The number a short digit string stands for
RECURSIVE ToNat(_)
ToNat(d) ==
    IF Len(d) = 0 THEN 0
    ELSE 10 * ToNat(SubSeq(d, 1, Len(d) - 1)) + DigitVal(d[Len(d)])

\* count_str.parse::<usize>(): Some(value) with the value as digits without
\* leading zeros, None for Err (the value is above usize::MAX)
ParseUsize(count_str) ==
    LET v == StripZeros(count_str) IN
    IF DecGreater(v, UsizeMaxDigits) THEN None ELSE Some(v)

\* Outcomes of try_from: Ok(Guess), Err(ParseGuessError), or the panic of
\* an expect
OkGuess(g) == [kind |-> "Ok", guess |-> Some(g), err |-> None]
ErrParse(l, detail) ==
    [kind |-> "ParseGuess", guess |-> None,
     err |-> Some([line |-> l, detail |-> detail])]
Panicked == [kind |-> "Panic", guess |-> None, err |-> None]

\* Guess::try_from(line)
TryFrom(l) ==
    LET captures == Captures(l) IN
    IF captures = None THEN ErrParse(l, "wrong guess format")
    ELSE LET word == captures[1].word
             count_str == captures[1].count
         IN  IF Len(count_str) > 0
             THEN LET count == ParseUsize(count_str) IN
                  IF count = None THEN Panicked
                  ELSE IF DecGreater(count[1], ToDigits(Len(word)))
                  THEN ErrParse(l, "count is longer than the word")
                  ELSE OkGuess(NewGuessWithCount(word, ToNat(count[1])))
             ELSE OkGuess(NewGuess(word))

---------------------------------------------------------------------------
(* Error (lines 98-175) *)

Ok == [kind |-> "Ok", err |-> None]
ErrParseGuess(e) == [kind |-> "ParseGuess", err |-> Some(e)]
ErrIO == [kind |-> "IO", err |-> None]
ErrNoGuesses == [kind |-> "NoGuesses", err |-> None]
ErrUnequalLengths == [kind |-> "UnequalLengths", err |-> None]

ErrorKinds == {"ParseGuess", "IO", "NoGuesses", "UnequalLengths"}

\* The line eprintln!("error: {}", e) writes: Display for Error and for the
\* error it wraps
ErrorLine(e) ==
    CASE e.kind = "IO" -> <<"error: IO error: ">>
      [] e.kind = "ParseGuess" ->
            <<"error: parsing guess error: cannot parse line \"", e.err[1].line,
              "\" into Guess: ", e.err[1].detail>>
      [] e.kind = "NoGuesses" -> <<"error: no guesses in input">>
      [] e.kind = "UnequalLengths" -> <<"error: guess words have unequal lengths">>

---------------------------------------------------------------------------
(* parse_guesses_from_stdin (lines 177-205) *)

\* A line without the "\r" that ended it before its "\n"
StripCR(l) ==
    IF Len(l) > 0 /\ l[Len(l)] = "\r" THEN SubSeq(l, 1, Len(l) - 1) ELSE l

\* buffer.lines() from character i on: cur is the line being read, acc the
\* lines before it.  Lines end at "\n" or "\r\n"; text after the last "\n" is
\* a line when it is not empty.
RECURSIVE LinesFrom(_, _, _, _)
LinesFrom(buffer, i, cur, acc) ==
    IF i > Len(buffer) THEN (IF cur = <<>> THEN acc ELSE Append(acc, cur))
    ELSE IF buffer[i] = "\n"
    THEN LinesFrom(buffer, i + 1, <<>>, Append(acc, StripCR(cur)))
    ELSE LinesFrom(buffer, i + 1, Append(cur, buffer[i]), acc)

Lines(buffer) == LinesFrom(buffer, 1, <<>>, <<>>)

\* Mutant: only a longer word than the first is an error
RECURSIVE SomeLonger(_, _, _)
SomeLonger(gs, i, len) ==
    IF i > Len(gs) THEN FALSE
    ELSE IF Len(gs[i].word) > len THEN TRUE
    ELSE SomeLonger(gs, i + 1, len)

\* The loop of lines 198-202 from guess i on: whether it returns the error
RECURSIVE SomeUnequal(_, _, _)
SomeUnequal(gs, i, len) ==
    IF i > Len(gs) THEN FALSE
    ELSE IF Len(gs[i].word) # len THEN TRUE
    ELSE SomeUnequal(gs, i + 1, len)

\* Lines 188-204: what the loader returns for the guesses it collected; with
\* Ok it returns the guesses
Validated(gs) ==
    IF Len(gs) = 0 THEN ErrNoGuesses
    ELSE LET len == Len(gs[1].word) IN
         IF SomeUnequal(gs, 1, len) THEN ErrUnequalLengths ELSE Ok

---------------------------------------------------------------------------
(* run (lines 207-228) *)

Indices(gs) == [i \in 1..Len(gs) |-> i]

\* guesses_with_count, as references into guesses
GuessesWithCount(gs) ==
    LET HasCount(i) == gs[i].count # None IN SelectSeq(Indices(gs), HasCount)

\* guesses_without_count
GuessesWithoutCount(gs) ==
    LET NoCount(i) == gs[i].count = None IN SelectSeq(Indices(gs), NoCount)

\* Mutant: any in place of all
AgreesWithAny(gs, j) ==
    LET with_count == GuessesWithCount(gs) IN
    \E k \in 1..Len(with_count) :
        num_of_common_letters(gs[with_count[k]], gs[j])
            = Some(gs[with_count[k]].count[1])

\* The closure of the filter (lines 216-221) for the guess at index j
AgreesWithAll(gs, j) ==
    LET with_count == GuessesWithCount(gs) IN
    \A k \in 1..Len(with_count) :
        num_of_common_letters(gs[with_count[k]], gs[j])
            = Some(gs[with_count[k]].count[1])

\* Whether a comparison the filter makes panics
FilterPanics(gs) ==
    \E i, j \in 1..Len(gs) :
        /\ gs[i].count # None
        /\ gs[j].count = None
        /\ num_of_common_letters(gs[i], gs[j]) = None

\* Mutant: the filter loses the first guess it lets through
FilteredButFirst(gs) ==
    LET Keep(j) == AgreesWithAll(gs, j)
        kept == SelectSeq(GuessesWithoutCount(gs), Keep)
    IN  IF kept = <<>> THEN kept ELSE Tail(kept)

\* Mutant: the filter does not look at the counts
FilteredNothing(gs) == GuessesWithoutCount(gs)

\* filtered_guesses, as references into guesses
FilteredGuesses(gs) ==
    LET Keep(j) == AgreesWithAll(gs, j)
    IN  SelectSeq(GuessesWithoutCount(gs), Keep)

\* The words of the guesses at the indices idx
WordsAt(gs, idx) == [k \in 1..Len(idx) |-> gs[idx[k]].word]

---------------------------------------------------------------------------
(* The lines standard input is made of *)

Lab == <<"a","b">>
Laa == <<"a","a">>
Lbb == <<"b","b">>
Lba == <<"b","a">>
Lab1 == <<"a","b"," ","1">>
Lab2 == <<"a","b","2">>
Laa1 == <<"a","a"," ","1">>
Lbb0 == <<"-","b","b","\t","0","0","x">>
Labc == <<"a","b","c">>
Lblank == <<>>
Lab3 == <<"a","b"," ","3">>
Lhuge == <<"a","b"," ","1","8","4","4","6","7","4","4","0","7","3","7","0","9","5","5","1","6","1","6">>

LineSet == {Lab, Laa, Lbb, Lba, Lab1, Lab2, Laa1, Lbb0, Labc, Lblank, Lab3, Lhuge}

\* How the lines are ended: each by "\n", each but the last by "\n", each
\* by "\r\n"
Endings == {"lf", "open", "crlf"}

RECURSIVE Joined(_, _, _)
Joined(ls, i, ending) ==
    IF i > Len(ls) THEN <<>>
    ELSE ls[i]
         \o (CASE ending = "crlf" -> <<"\r", "\n">>
               [] ending = "open" /\ i = Len(ls) -> <<>>
               [] OTHER -> <<"\n">>)
         \o Joined(ls, i + 1, ending)

Inputs ==
    {Joined(ls, 1, ending) :
        ls \in UNION {[1..n -> LineSet] : n \in 0..MaxLines}, ending \in Endings}

---------------------------------------------------------------------------
(* The process: main (lines 230-238) running run *)

Idle ==
    /\ line = <<>> /\ parsed = None
    /\ wa = <<>> /\ wb = <<>> /\ num = None

\* Before run is called
Fresh ==
    /\ lines = <<>>
    /\ next = 1
    /\ guesses = <<>>
    /\ result = None
    /\ filtered = <<>>
    /\ pos = 0
    /\ stdout = <<>>
    /\ stderr = <<>>
    /\ status = None

Init ==
    /\ stdin \in Inputs
    /\ pc = "read"
    /\ Fresh
    /\ Idle

\* Line 181, read_to_string succeeds
Read ==
    /\ pc = "read"
    /\ lines' = Lines(stdin)
    /\ pc' = "parse"
    /\ UNCHANGED <<stdin, next, guesses, result, filtered, pos, stdout, stderr, status>>
    /\ UNCHANGED <<parseVars, commonVars>>

\* Line 181, read_to_string fails: ? returns Error::IO
ReadFail ==
    /\ pc = "read"
    /\ result' = Some(ErrIO)
    /\ pc' = "main"
    /\ UNCHANGED <<stdin, lines, next, guesses, filtered, pos, stdout, stderr, status>>
    /\ UNCHANGED <<parseVars, commonVars>>

\* Lines 183-186, one turn of the loop
ParseLine ==
    /\ pc = "parse"
    /\ next <= Len(lines)
    /\ LET r == TryFrom(lines[next]) IN
       CASE r.kind = "Ok" ->
              /\ guesses' = Append(guesses, r.guess[1])
              /\ next' = next + 1
              /\ UNCHANGED <<pc, result, stderr, status>>
         [] r.kind = "ParseGuess" ->
              /\ result' = Some(ErrParseGuess(r.err[1]))
              /\ pc' = "main"
              /\ UNCHANGED <<guesses, next, stderr, status>>
         [] r.kind = "Panic" ->
              /\ stderr' = Append(stderr, <<"thread 'main' panicked">>)
              /\ status' = Some(101)
              /\ pc' = "exit"
              /\ UNCHANGED <<guesses, next, result>>
    /\ UNCHANGED <<stdin, lines, filtered, pos, stdout>>
    /\ UNCHANGED <<parseVars, commonVars>>

\* Lines 188-204, after the loop
Validate ==
    /\ pc = "parse"
    /\ next > Len(lines)
    /\ LET r == Validated(guesses) IN
       IF r.kind = "Ok"
       THEN pc' = "filter" /\ UNCHANGED result
       ELSE pc' = "main" /\ result' = Some(r)
    /\ UNCHANGED <<stdin, lines, next, guesses, filtered, pos, stdout, stderr, status>>
    /\ UNCHANGED <<parseVars, commonVars>>

\* Lines 210-221
Filter ==
    /\ pc = "filter"
    /\ IF FilterPanics(guesses)
       THEN /\ stderr' = Append(stderr, <<"thread 'main' panicked">>)
            /\ status' = Some(101)
            /\ pc' = "exit"
            /\ UNCHANGED <<filtered, pos>>
       ELSE /\ filtered' = FilteredGuesses(guesses)
            /\ pos' = 0
            /\ pc' = "print"
            /\ UNCHANGED <<stderr, status>>
    /\ UNCHANGED <<stdin, lines, next, guesses, result, stdout>>
    /\ UNCHANGED <<parseVars, commonVars>>

\* Lines 223-225, one turn of the loop; standard output takes every write
PrintGuess ==
    /\ pc = "print"
    /\ pos < Len(filtered)
    /\ stdout' = Append(stdout, guesses[filtered[pos + 1]].word)
    /\ pos' = pos + 1
    /\ UNCHANGED <<stdin, pc, lines, next, guesses, result, filtered, stderr, status>>
    /\ UNCHANGED <<parseVars, commonVars>>

\* Line 227
Return ==
    /\ pc = "print"
    /\ pos = Len(filtered)
    /\ result' = Some(Ok)
    /\ pc' = "main"
    /\ UNCHANGED <<stdin, lines, next, guesses, filtered, pos, stdout, stderr, status>>
    /\ UNCHANGED <<parseVars, commonVars>>

\* Mutant: the error is reported and exit(1) is left out
MainErrNoExit ==
    /\ pc = "main"
    /\ result[1].kind \in ErrorKinds
    /\ stderr' = Append(stderr, ErrorLine(result[1]))
    /\ status' = Some(0)
    /\ pc' = "exit"
    /\ UNCHANGED <<stdin, lines, next, guesses, result, filtered, pos, stdout>>
    /\ UNCHANGED <<parseVars, commonVars>>

\* Lines 232-235
MainErr ==
    /\ pc = "main"
    /\ result[1].kind \in ErrorKinds
    /\ stderr' = Append(stderr, ErrorLine(result[1]))
    /\ status' = Some(1)
    /\ pc' = "exit"
    /\ UNCHANGED <<stdin, lines, next, guesses, result, filtered, pos, stdout>>
    /\ UNCHANGED <<parseVars, commonVars>>

\* Line 236, and main returns
MainOk ==
    /\ pc = "main"
    /\ result[1].kind = "Ok"
    /\ status' = Some(0)
    /\ pc' = "exit"
    /\ UNCHANGED <<stdin, lines, next, guesses, result, filtered, pos, stdout, stderr>>
    /\ UNCHANGED <<parseVars, commonVars>>

Next ==
    \/ Read
    \/ ReadFail
    \/ ParseLine
    \/ Validate
    \/ Filter
    \/ PrintGuess
    \/ Return
    \/ MainErr
    \/ MainOk

Spec == Init /\ [][Next]_vars

---------------------------------------------------------------------------
(* Guess::try_from alone, on one line *)

ParseAlphabet == {"a", "B", " ", "1", "2", "-"}

Zeros24 == [i \in 1..24 |-> "0"]
Nines21 == [i \in 1..21 |-> "9"]

\* Digit runs with leading zeros, around usize::MAX and above it
DigitRuns ==
    {<<"0">>, <<"0","0">>, <<"0","2">>, <<"3">>, <<"1","0">>,
     Zeros24 \o <<"2">>, Zeros24 \o <<"3">>,
     UsizeMaxDigits, <<"0">> \o UsizeMaxDigits,
     SubSeq(UsizeMaxDigits, 1, 19) \o <<"6">>, Nines21}

CountLines ==
    {w \o sep \o d \o rest :
        w \in {<<"a">>, <<"a","b">>}, sep \in {<<>>, <<" ">>, <<" ","\t">>},
        d \in DigitRuns, rest \in {<<>>, <<"x","7">>}}

ParseLines ==
    UNION {[1..n -> ParseAlphabet] : n \in 0..MaxLineLen} \cup CountLines

InitParse ==
    /\ line \in ParseLines
    /\ parsed = None
    /\ stdin = <<>> /\ pc = "idle" /\ Fresh
    /\ wa = <<>> /\ wb = <<>> /\ num = None

TryFromLine ==
    /\ parsed = None
    /\ parsed' = Some(TryFrom(line))
    /\ UNCHANGED <<line, runVars, commonVars>>

NextParse == TryFromLine

SpecParse == InitParse /\ [][NextParse]_vars

---------------------------------------------------------------------------
(* Guess::num_of_common_letters alone, on two guesses *)

Letters == {"a", "b", "c"}

CommonWords == UNION {[1..n -> Letters] : n \in 1..MaxWordLen}

InitCommon ==
    /\ wa \in CommonWords
    /\ wb \in CommonWords
    /\ num = None
    /\ stdin = <<>> /\ pc = "idle" /\ Fresh
    /\ line = <<>> /\ parsed = None

Compare ==
    /\ num = None
    /\ num' = Some(<<num_of_common_letters(NewGuess(wa), NewGuess(wb)),
                     num_of_common_letters(NewGuess(wb), NewGuess(wa))>>)
    /\ UNCHANGED <<wa, wb, runVars, parseVars>>

NextCommon == Compare

SpecCommon == InitCommon /\ [][NextCommon]_vars

---------------------------------------------------------------------------
(* What the properties are stated with *)

\* Number of positions at which two words of one length hold the same letter
Matches(a, b) == Cardinality({i \in 1..Len(a) : a[i] = b[i]})

\* Where the maximal run of characters of class that starts at index from
\* ends: the index after its last character
EndOfRun(l, from, class) ==
    CHOOSE e \in from..(Len(l) + 1) :
        /\ \A i \in from..(e - 1) : l[i] \in class
        /\ e = Len(l) + 1 \/ l[e] \notin class

HasAlpha(l) == \E i \in 1..Len(l) : l[i] \in AlphaChars

\* The first alphabetic run of a line that has one, the digit run that
\* follows it after any whitespace, and the leading alphabetic run
FirstAlphaIndex(l) ==
    CHOOSE b \in 1..Len(l) :
        l[b] \in AlphaChars /\ \A i \in 1..(b - 1) : l[i] \notin AlphaChars
WordOf(l) ==
    SubSeq(l, FirstAlphaIndex(l), EndOfRun(l, FirstAlphaIndex(l), AlphaChars) - 1)
DigitsOf(l) ==
    LET d == EndOfRun(l, EndOfRun(l, FirstAlphaIndex(l), AlphaChars), SpaceChars)
    IN  SubSeq(l, d, EndOfRun(l, d, DigitChars) - 1)
LeadingWordOf(l) == SubSeq(l, 1, EndOfRun(l, 1, AlphaChars) - 1)
LeadingDigitsOf(l) ==
    LET d == EndOfRun(l, EndOfRun(l, 1, AlphaChars), SpaceChars)
    IN  SubSeq(l, d, EndOfRun(l, d, DigitChars) - 1)

\* The digit run of the line stands for a number above the length of its word
CountAboveLength(l) ==
    DecGreater(StripZeros(DigitsOf(l)), ToDigits(Len(WordOf(l))))

\* A line of the grammar: a word, and a count of at most its length if any
IsGuessLine(l) == HasAlpha(l) /\ ~CountAboveLength(l)

ReadDone == pc # "read" /\ result # Some(ErrIO)
LoaderReturnedOk == pc \in {"filter", "print"} \/ result = Some(Ok)
LoaderEnded == ReadDone /\ pc \in {"filter", "print", "main", "exit"}
FilterDone == pc = "print" \/ result = Some(Ok)
Failed == result # None /\ result[1].kind \in ErrorKinds
Succeeded == result = Some(Ok)

Clues == {i \in 1..Len(guesses) : guesses[i].count # None}
Candidates == {i \in 1..Len(guesses) : guesses[i].count = None}
Kept == {filtered[k] : k \in 1..Len(filtered)}

\* The candidate at index j agrees with every clue
Consistent(j) ==
    \A c \in Clues : Matches(guesses[c].word, guesses[j].word) = guesses[c].count[1]

IsPrefix(s, t) == Len(s) <= Len(t) /\ SubSeq(t, 1, Len(s)) = s

---------------------------------------------------------------------------
(* C9 *)

\* C9: for two words of one length, num_of_common_letters gives the same
\* number in both directions, which is the number of positions where the
\* two words hold the same letter, and lies between 0 and the length.
C9_SymmetricPositional ==
    (num # None /\ Len(wa) = Len(wb)) =>
        /\ num[1][1] # None
        /\ num[1][1] = num[1][2]
        /\ num[1][1][1] = Matches(wa, wb)
        /\ num[1][1][1] \in 0..Len(wa)

\* Two different words of length 3 that share a letter in place and a letter
\* out of place have been compared
C9_Witness ==
    /\ num # None
    /\ Len(wa) = 3 /\ Len(wb) = 3
    /\ num[1][1] = Some(1)
    /\ \E i, j \in 1..3 : i # j /\ wa[i] = wb[j] /\ wa[i] # wb[i] /\ wa[j] # wb[j]

---------------------------------------------------------------------------
(* C3, C6 *)

\* C3: a line with a word followed by a digit run, of any length, whose
\* value is above the length of the word gives a ParseError, and try_from
\* ends with a Guess or a ParseError and in no other way.
C3_CountAboveLengthIsParseError ==
    parsed # None =>
        /\ parsed[1].kind \in {"Ok", "ParseGuess"}
        /\ (HasAlpha(line) /\ DigitsOf(line) # <<>> /\ CountAboveLength(line))
              => parsed[1].kind = "ParseGuess"

\* C6 as claimed: the word is the maximal run of alphabetic characters the
\* line begins with, the count the digit run after it and any whitespace
\* (absent when that run is empty), and the parse fails with "wrong guess
\* format" exactly when the line holds no alphabetic character.
C6_LeadingRun ==
    parsed # None =>
        LET r == parsed[1] IN
        /\ (r.kind = "ParseGuess" /\ r.err[1].detail = "wrong guess format")
              <=> ~HasAlpha(line)
        /\ r.kind = "Ok" =>
              /\ r.guess[1].word = LeadingWordOf(line)
              /\ r.guess[1].count = None <=> LeadingDigitsOf(line) = <<>>
              /\ r.guess[1].count # None =>
                    r.guess[1].count[1] = ToNat(StripZeros(LeadingDigitsOf(line)))

\* C6 as amended: the word is the first maximal run of alphabetic characters
\* found anywhere in the line, what stands before it being ignored; the
\* count is the maximal digit run after it and any whitespace, absent when
\* that run is empty; the parse fails with "wrong guess format" exactly when
\* the line holds no alphabetic character.
C6_FirstRunAnywhere ==
    parsed # None =>
        LET r == parsed[1] IN
        /\ (r.kind = "ParseGuess" /\ r.err[1].detail = "wrong guess format")
              <=> ~HasAlpha(line)
        /\ r.kind = "Ok" =>
              /\ HasAlpha(line)
              /\ r.guess[1].word = WordOf(line)
              /\ r.guess[1].count = None <=> DigitsOf(line) = <<>>
              /\ r.guess[1].count # None =>
                    r.guess[1].count[1] = ToNat(StripZeros(DigitsOf(line)))

\* A line that begins with a character that is no letter was parsed into a
\* guess with a count, whitespace standing between word and count
C6_Witness ==
    /\ parsed # None
    /\ parsed[1].kind = "Ok"
    /\ Len(line) = 4
    /\ line[1] \notin AlphaChars
    /\ line[3] \in SpaceChars
    /\ parsed[1].guess[1].count = Some(1)

---------------------------------------------------------------------------
(* C1, C2, C4, C5 *)

\* The candidates that agree with every clue, in input order
RECURSIVE ConsistentFrom(_)
ConsistentFrom(j) ==
    IF j > Len(guesses) THEN <<>>
    ELSE (IF j \in Candidates /\ Consistent(j) THEN <<guesses[j].word>> ELSE <<>>)
         \o ConsistentFrom(j + 1)

\* C1: when the input loaded and validated, the words run prints are the
\* words of the guesses without a count that match every guess with a count
\* in exactly its declared number of positions, in input order, duplicates
\* kept; no guess with a count is printed; without clues every candidate is.
C1_PrintsConsistentCandidates ==
    /\ FilterDone =>
          /\ IsPrefix(stdout, ConsistentFrom(1))
          /\ stdout = WordsAt(guesses, SubSeq(filtered, 1, pos))
          /\ \A k \in 1..Len(filtered) : guesses[filtered[k]].count = None
    /\ Succeeded =>
          /\ stdout = ConsistentFrom(1)
          /\ Clues = {} => Len(stdout) = Cardinality(Candidates)

\* A run ended well that printed one candidate and dropped the other
\* because of the clue that stands between them in the input
C1_Witness ==
    /\ pc = "exit" /\ Succeeded
    /\ Len(stdout) = 1
    /\ Clues = {2}
    /\ Candidates = {1, 3}

\* C2, in each state: a run that failed has written nothing to standard
\* output and exits with status 1 after one error line; a run that succeeded
\* exits with status 0 and no error line.
C2_State ==
    /\ Failed =>
          /\ stdout = <<>>
          /\ pc = "exit" => Len(stderr) = 1 /\ status = Some(1)
          /\ pc # "exit" => stderr = <<>> /\ status = None
    /\ Succeeded =>
          /\ stderr = <<>>
          /\ pc = "exit" => status = Some(0)
    /\ pc = "exit" => status # None

\* C2, in each step: what was written stays written, the result of run does
\* not change, and the exit status does not change
C2_Step ==
    /\ IsPrefix(stdout, stdout')
    /\ IsPrefix(stderr, stderr')
    /\ result # None => result' = result
    /\ status # None => status' = status

\* C2: output is all or nothing. A run that ends in failure (ParseError,
\* NoGuessesError, UnequalLengthsError, I/O error) wrote no word at any
\* earlier step, writes one error line and exits with status 1; a run that
\* ends in success exits with status 0 and writes no error line, also when
\* nothing passes the filter.
C2_AllOrNothing == []C2_State /\ [][C2_Step]_vars

\* A run exited with status 0 having printed nothing, its candidate dropped
C2_WitnessEmptySuccess ==
    /\ pc = "exit" /\ status = Some(0)
    /\ stdout = <<>>
    /\ Candidates # {}

\* C4: when every line parses and there is a line, the loader fails with
\* UnequalLengthsError exactly if some word's length differs from the first
\* word's, and otherwise returns the guesses of all lines in input order; the
\* words of a loaded collection have one length.
C4_UnequalLengths ==
    /\ (LoaderEnded /\ Len(lines) >= 1
            /\ \A i \in 1..Len(lines) : TryFrom(lines[i]).kind = "Ok") =>
          LET g(i) == TryFrom(lines[i]).guess[1]
              unequal == \E i \in 1..Len(lines) : Len(g(i).word) # Len(g(1).word)
          IN  /\ result = Some(ErrUnequalLengths) <=> unequal
              /\ ~unequal =>
                    /\ LoaderReturnedOk
                    /\ guesses = [i \in 1..Len(lines) |-> g(i)]
    /\ LoaderReturnedOk =>
          \A i, j \in 1..Len(guesses) : Len(guesses[i].word) = Len(guesses[j].word)

\* The loader failed on a word shorter than the first, all lines parsing
C4_Witness ==
    /\ result = Some(ErrUnequalLengths)
    /\ Len(guesses) = 3
    /\ Len(guesses[1].word) = 3
    /\ Len(guesses[2].word) = 3
    /\ Len(guesses[3].word) = 2

\* C5: the loader fails with the ParseError of the first line that is no
\* guess line, whatever the lengths of the words before it; a blank line is
\* such a line; NoGuessesError is returned exactly for an input of no lines.
C5_FirstBadLine ==
    LoaderEnded =>
        /\ (\E i \in 1..Len(lines) : ~IsGuessLine(lines[i])) =>
              LET first == CHOOSE i \in 1..Len(lines) :
                              /\ ~IsGuessLine(lines[i])
                              /\ \A k \in 1..(i - 1) : IsGuessLine(lines[k])
              IN  /\ result # None
                  /\ result[1].kind = "ParseGuess"
                  /\ result[1].err[1].line = lines[first]
        /\ result = Some(ErrNoGuesses) <=> Len(lines) = 0

---------------------------------------------------------------------------
(* C7, C8, C10 *)

\* The guesses at the indices idx
GuessesAt(gs, idx) == [k \in 1..Len(idx) |-> gs[idx[k]]]

\* C7: filtering the output of the filter again, as the candidates, with the
\* same clues, gives the same sequence of words.
C7_Idempotent ==
    FilterDone =>
        LET again == GuessesAt(guesses, GuessesWithCount(guesses))
                        \o GuessesAt(guesses, filtered)
        IN  WordsAt(again, FilteredGuesses(again)) = WordsAt(guesses, filtered)

\* The filter let two candidates through and dropped none, or let one
\* through and dropped one
C7_Witness ==
    /\ FilterDone
    /\ Clues # {}
    /\ Len(filtered) = 2

\* C8: with a clue whose count is the length of its word, each candidate
\* that passes the filter is that word, and a candidate that is that word is
\* not dropped on account of that clue: it passes if the other clues agree.
C8_FullCountClue ==
    FilterDone =>
        \A c \in Clues :
            guesses[c].count = Some(Len(guesses[c].word)) =>
                /\ \A j \in Kept : guesses[j].word = guesses[c].word
                /\ \A k \in 1..Len(stdout) : stdout[k] = guesses[c].word
                /\ \A j \in Candidates :
                      (/\ guesses[j].word = guesses[c].word
                       /\ \A d \in Clues \ {c} :
                             Matches(guesses[d].word, guesses[j].word)
                                = guesses[d].count[1])
                      => j \in Kept

\* With a clue of full count, the candidate equal to it was printed and a
\* candidate made of the same letters in another order was dropped
C8_Witness ==
    /\ pc = "exit" /\ Succeeded
    /\ \E c \in Clues, j, k \in Candidates :
          /\ guesses[c].count = Some(Len(guesses[c].word))
          /\ guesses[j].word = guesses[c].word
          /\ stdout = <<guesses[j].word>>
          /\ guesses[k].word # guesses[c].word
          /\ \A i \in 1..Len(guesses[k].word) :
                \E m \in 1..Len(guesses[c].word) :
                    guesses[k].word[i] = guesses[c].word[m]

\* The words a hidden target may be: of the length of the guesses
Targets == [1..Len(guesses[1].word) -> {"a", "b", "c"}]

\* The guesses with the guess g put in after the first p of them
InsertAt(gs, p, g) == SubSeq(gs, 1, p) \o <<g>> \o SubSeq(gs, p + 1, Len(gs))

\* C10: if every clue is truthful about a target word and the target is a
\* candidate, the target passes the filter and is printed; a candidate is
\* dropped only if the count of some clue differs from its number of matches
\* with that candidate; a clue added to the input adds no word to the output.
C10_Sound ==
    FilterDone =>
        /\ \A t \in Targets :
              (\A c \in Clues : guesses[c].count[1] = Matches(guesses[c].word, t)) =>
                  /\ \A j \in Candidates : guesses[j].word = t => j \in Kept
                  /\ (Succeeded /\ \E j \in Candidates : guesses[j].word = t) =>
                        \E k \in 1..Len(stdout) : stdout[k] = t
        /\ \A j \in Candidates \ Kept :
              \E c \in Clues :
                  guesses[c].count[1] # Matches(guesses[c].word, guesses[j].word)
        /\ \A w \in Targets, n \in 0..Len(guesses[1].word), p \in 0..Len(guesses) :
              LET more == InsertAt(guesses, p, NewGuessWithCount(w, n))
                  kept == FilteredGuesses(more)
              IN  \A k \in 1..Len(kept) :
                      (IF kept[k] > p THEN kept[k] - 1 ELSE kept[k]) \in Kept

\* A target that is a candidate was printed with two truthful clues of
\* different words in the input
C10_Witness ==
    /\ pc = "exit" /\ Succeeded
    /\ Cardinality(Clues) = 2
    /\ \E c, d \in Clues : guesses[c].word # guesses[d].word
    /\ Len(stdout) = 1
    /\ \A c \in Clues : guesses[c].count[1] = Matches(guesses[c].word, stdout[1])


====
